---- MODULE Spec2Model ----
(***************************************************************************)
(* The todo store of api/pyfast-api (database.py), the pydantic models it  *)
(* stores (models.py) and the request handlers over it (main.py): the      *)
(* statistics, the filters of the listing, the reminders and the routing   *)
(* of a request to its handler.                                            *)
(*                                                                         *)
(* Specifications:                                                         *)
(*   Spec        one process, the store operations called in any order     *)
(*   SpecStats   the statistics over any snapshot of todos                 *)
(*   SpecFilter  the listing endpoint over any stored list and query       *)
(*   SpecCaller  Spec and a caller that changes a Todo it was handed       *)
(*   SpecHttp    Spec and requests for /api/todos/<segment>                *)
(*   SpecPair    two processes, one per backend, making the same calls     *)
(*   SpecValidated  Spec and updates that TodoUpdate refuses               *)
(*   SpecRequests   requests whose store calls interleave                  *)
(*   SpecDue        the statistics over todos that carry a due date        *)
(*   SpecSession    the session of a relational store call, step by step   *)
(*                                                                         *)
(* Encoding of Python values:                                              *)
(*   None                   <<>>                                           *)
(*   a present value v      <<v>>          (where None is possible)        *)
(*   datetime               minutes since 2024-01-01 00:00                 *)
(*   date                   days relative to date.today()                  *)
(*   time                   minutes since midnight                         *)
(*   uuid4 string           a natural number, never handed out twice       *)
(*   float rounded to 2dp   an integer number of hundredths                *)
(***************************************************************************)
EXTENDS Integers, Sequences, FiniteSets, TLC

VARIABLES
    backend,      \* "memory" or "persistent": engine is None or not (db.py)
    strictClock,  \* TRUE: every clock reading is later than the previous one
    store,        \* _todos_db (memory) or the rows of table todos (persistent)
    now,          \* the latest reading of datetime.now()
    nextId,       \* the ids 1 .. nextId-1 have been generated
    writes,       \* number of mutating calls made so far
    ret,          \* the last call: its arguments, its result, the store before it
    twin          \* the process on the other backend, when two are driven alike

vars == <<backend, strictClock, store, now, nextId, writes, ret, twin>>

----------------------------------------------------------------------------
(* Bounds of the model *)

MaxWrites == 2
MaxSnapshot == 33
MaxListed == 3
MaxRequests == 2
MaxStarted == 2
MaxDue == 3

----------------------------------------------------------------------------
(* Python values *)

None == <<>>
Some(v) == <<v>>
Val(o) == o[1]

\* an id no call of _generate_id ever returns (a caller's made-up uuid)
NeverId == 0

\* date.today(), the origin of the day scale
Today == 0

\* datetime(2024, 1, day, h, m, 0)
At(day, h, m) == ((day - 1) * 24 + h) * 60 + m

\* time(h, m)
TimeOfDay(h, m) == h * 60 + m

----------------------------------------------------------------------------
(* models.py *)

\* class Priority(str, Enum): the members
PriorityMembers == {"LOW", "MEDIUM", "HIGH"}

\* Priority.X.value
PriorityValue(m) ==
    CASE m = "LOW" -> "low"
      [] m = "MEDIUM" -> "medium"
      [] m = "HIGH" -> "high"

\* Priority(s) for a string s that is a member's value
PriorityOf(s) == CHOOSE m \in PriorityMembers : PriorityValue(m) = s

FieldNames == {"text", "priority", "completed", "due_date", "reminder_time"}

\* TodoBase: Field(..., min_length=1, max_length=500) and the two validators,
\* applied to a request body b whose supplied fields are b.fields
TextOk(t) == Len(t) >= 1 /\ Len(t) <= 500

DueDateOk(d) == IF d = None THEN TRUE ELSE Val(d) >= Today

\* faulty variant of ReminderOk: a reminder needs no due date (C21)
ReminderOkLenient(r, d) == TRUE

ReminderOk(r, d) == IF r = None THEN TRUE ELSE d # None

PriorityTokenOk(b) ==
    "priority" \in b.fields => b.priority \in {PriorityValue(m) : m \in PriorityMembers}

ValidTodoBase(b) ==
    /\ "text" \in b.fields
    /\ TextOk(b.text)
    /\ PriorityTokenOk(b)
    /\ DueDateOk(IF "due_date" \in b.fields THEN b.due_date ELSE None)
    /\ ReminderOk(IF "reminder_time" \in b.fields THEN b.reminder_time ELSE None,
                  IF "due_date" \in b.fields THEN b.due_date ELSE None)

\* TodoCreate(**body): the defaults of TodoBase where a field is omitted
TodoCreate(b) ==
    [text          |-> b.text,
     priority      |-> IF "priority" \in b.fields THEN PriorityOf(b.priority) ELSE "MEDIUM",
     completed     |-> IF "completed" \in b.fields THEN b.completed ELSE FALSE,
     due_date      |-> IF "due_date" \in b.fields THEN b.due_date ELSE None,
     reminder_time |-> IF "reminder_time" \in b.fields THEN b.reminder_time ELSE None]

\* TodoUpdate: every field Optional with default None; fields = __fields_set__
TodoUpdate(fields, text, priority, completed, due_date, reminder_time) ==
    [fields        |-> fields,
     text          |-> IF "text" \in fields THEN text ELSE None,
     priority      |-> IF "priority" \in fields THEN priority ELSE None,
     completed     |-> IF "completed" \in fields THEN completed ELSE None,
     due_date      |-> IF "due_date" \in fields THEN due_date ELSE None,
     reminder_time |-> IF "reminder_time" \in fields THEN reminder_time ELSE None]

ValidTodoUpdate(p) ==
    /\ IF p.text = None THEN TRUE ELSE TextOk(Val(p.text))
    /\ DueDateOk(p.due_date)
    /\ ReminderOk(p.reminder_time, p.due_date)

\* Todo(id=, text=, priority=, completed=, created_at=, updated_at=):
\* due_date and reminder_time are not passed and take their default None
Todo(id, text, priority, completed, created_at, updated_at) ==
    [id            |-> id,
     text          |-> text,
     priority      |-> priority,
     completed     |-> completed,
     due_date      |-> None,
     reminder_time |-> None,
     created_at    |-> created_at,
     updated_at    |-> updated_at]

----------------------------------------------------------------------------
(* database.py: helpers *)

\* _use_persistent_storage()
UsePersistentStorage == backend = "persistent"

\* faulty variant of GenerateId: hands out the previous id again (C3)
GenerateIdRepeating(n) == IF n > 1 THEN n - 1 ELSE n

\* _generate_id(): uuid4, modelled as the next unused number
GenerateId(n) == n

\* faulty variant of GetCurrentTimestamp: a clock that stands still (C8)
GetCurrentTimestampFrozen(prev, d) == prev

\* _get_current_timestamp(): a reading d minutes after the previous reading
GetCurrentTimestamp(prev, d) == prev + d

\* by how much two successive readings of the clock may differ
ClockSteps == IF strictClock THEN {1} ELSE {0, 1}

\* the sample_todos list of initialize_sample_data
SampleTodos ==
    << [text |-> "Learn React hooks and state management", priority |-> "HIGH",
        completed |-> FALSE, due_date |-> Some(Today + 1),
        reminder_time |-> Some(TimeOfDay(9, 0)),
        created_at |-> At(15, 10, 0), updated_at |-> At(15, 10, 0)],
       [text |-> "Build a spicy todo application", priority |-> "HIGH",
        completed |-> TRUE, due_date |-> Some(Today - 1),
        reminder_time |-> Some(TimeOfDay(14, 30)),
        created_at |-> At(14, 9, 30), updated_at |-> At(15, 11, 45)],
       [text |-> "Add beautiful animations and transitions", priority |-> "MEDIUM",
        completed |-> FALSE, due_date |-> Some(Today + 7),
        reminder_time |-> Some(TimeOfDay(16, 0)),
        created_at |-> At(13, 14, 20), updated_at |-> At(13, 14, 20)],
       [text |-> "Implement dark mode toggle", priority |-> "LOW",
        completed |-> FALSE, due_date |-> Some(Today + 3),
        reminder_time |-> Some(TimeOfDay(10, 30)),
        created_at |-> At(12, 16, 45), updated_at |-> At(12, 16, 45)],
       [text |-> "Write comprehensive tests", priority |-> "MEDIUM",
        completed |-> FALSE, due_date |-> Some(Today + 5),
        reminder_time |-> Some(TimeOfDay(13, 0)),
        created_at |-> At(11, 11, 15), updated_at |-> At(11, 11, 15)],
       [text |-> "Deploy to production", priority |-> "HIGH",
        completed |-> TRUE, due_date |-> Some(Today - 1),
        reminder_time |-> Some(TimeOfDay(9, 0)),
        created_at |-> At(10, 8, 0), updated_at |-> At(14, 15, 30)],
       [text |-> "Optimize performance and bundle size", priority |-> "MEDIUM",
        completed |-> FALSE, due_date |-> Some(Today + 2),
        reminder_time |-> Some(TimeOfDay(15, 30)),
        created_at |-> At(9, 13, 30), updated_at |-> At(9, 13, 30)],
       [text |-> "Add keyboard shortcuts for power users", priority |-> "LOW",
        completed |-> FALSE, due_date |-> Some(Today + 10),
        reminder_time |-> Some(TimeOfDay(11, 0)),
        created_at |-> At(8, 10, 45), updated_at |-> At(8, 10, 45)] >>

\* initialize_sample_data(), in-memory branch: _todos_db = [] and one
\* Todo per sample, ids generated from n on
InitializeSampleData(n) ==
    [i \in 1..Len(SampleTodos) |->
        Todo(GenerateId(n + i - 1), SampleTodos[i].text, SampleTodos[i].priority,
             SampleTodos[i].completed, SampleTodos[i].created_at,
             SampleTodos[i].updated_at)]

\* "if not _todos_db: initialize_sample_data()" at the head of every in-memory
\* branch; the persistent branches never seed
Seeds == (~UsePersistentStorage) /\ store = <<>>

Seeded == IF Seeds THEN InitializeSampleData(nextId) ELSE store

IdAfterSeed == IF Seeds THEN nextId + Len(SampleTodos) ELSE nextId

\* _to_model(row)
ToModel(row) ==
    Todo(row.id, row.text, PriorityOf(row.priority), row.completed,
         row.created_at, row.updated_at)

\* faulty variant of IndexOf: a miss yields the last position (C5)
IndexOfOrLast(s, id) ==
    IF \E i \in 1..Len(s) : s[i].id = id
    THEN CHOOSE i \in 1..Len(s) : s[i].id = id /\ \A j \in 1..(i - 1) : s[j].id # id
    ELSE Len(s)

\* "for i, todo in enumerate(...): if todo.id == todo_id" and db.get(TodoORM, id):
\* the position of the record with this id, 0 when there is none
IndexOf(s, id) ==
    IF \E i \in 1..Len(s) : s[i].id = id
    THEN CHOOSE i \in 1..Len(s) : s[i].id = id /\ \A j \in 1..(i - 1) : s[j].id # id
    ELSE 0

\* the record as the caller receives it
AsModel(r) == IF UsePersistentStorage THEN ToModel(r) ELSE r

\* get_todo_by_id evaluated on store s (after seeding): Some(todo) or None
Lookup(s, id) ==
    IF IndexOf(s, id) = 0 THEN None ELSE Some(AsModel(s[IndexOf(s, id)]))

\* get_todos evaluated on store s (after seeding)
Snapshot(s) == [i \in 1..Len(s) |-> AsModel(s[i])]

\* faulty variant of RemoveAt: the slices overlap and nothing is removed (C4)
RemoveAtOverlapping(s, i) == SubSeq(s, 1, i) \o SubSeq(s, i + 1, Len(s))

\* faulty variant of RemoveAt: the last record is moved into the gap (C29)
RemoveAtSwapped(s, i) ==
    IF i = Len(s) THEN SubSeq(s, 1, i - 1)
    ELSE SubSeq(s, 1, i - 1) \o <<s[Len(s)]>> \o SubSeq(s, i + 1, Len(s) - 1)

\* "del _todos_db[i]" and db.delete(row)
RemoveAt(s, i) == SubSeq(s, 1, i - 1) \o SubSeq(s, i + 1, Len(s))

----------------------------------------------------------------------------
(* The record of the last call *)

Ret(op, id, arg, out, todo, pre) ==
    [op |-> op, id |-> id, arg |-> arg, out |-> out, todo |-> todo,
     list |-> <<>>, num |-> 0, stats |-> None, pre |-> pre]

NoCall == Ret("none", NeverId, None, "none", None, <<>>)

\* a process that runs alone
NoTwin == [phase |-> "alone"]

\* the ids a caller addresses: a made-up one, the one of the previous call
\* (a record just created, updated or deleted) and the one of the first record
AddressedIds ==
    {NeverId, ret.id} \cup
    (IF store = <<>> THEN {} ELSE {store[1].id})

----------------------------------------------------------------------------
(* Initial state: the process has just started, nothing is stored. The    *)
(* clock reads a time after the latest timestamp written into the sample  *)
(* data (2024-01-15 11:45).                                               *)

SeedLatest == At(15, 11, 45)

Init ==
    /\ backend \in {"memory", "persistent"}
    /\ strictClock \in BOOLEAN
    /\ store = <<>>
    /\ now = SeedLatest + 1
    /\ nextId = 1
    /\ writes = 0
    /\ ret = NoCall
    /\ twin = NoTwin

----------------------------------------------------------------------------
(* Requests *)

Body(fields, text, priority, completed, due_date, reminder_time) ==
    [fields |-> fields, text |-> text, priority |-> priority,
     completed |-> completed, due_date |-> due_date,
     reminder_time |-> reminder_time]

\* request bodies of POST /api/todos: three that pass TodoCreate's validation
\* and three that do not (orphaned reminder, due date in the past, empty text)
CreateBodies ==
    { Body({"text"}, "Minimal todo", "medium", FALSE, None, None),
      Body({"text", "priority"}, "Buy milk", "high", FALSE, None, None),
      Body(FieldNames, "Pay rent", "low", TRUE,
           Some(Today + 1), Some(TimeOfDay(9, 0))),
      Body({"text", "reminder_time"}, "Call home", "medium", FALSE,
           None, Some(TimeOfDay(9, 0))),
      Body({"text", "due_date"}, "Call home", "medium", FALSE,
           Some(Today - 1), None),
      Body({"text"}, "", "medium", FALSE, None, None) }

\* TodoUpdate payloads that pass its validation; the last two set a field
\* explicitly to null
UpdatePayloads ==
    { TodoUpdate({"completed"}, None, None, Some(TRUE), None, None),
      TodoUpdate({"text"}, Some("Only text updated"), None, None, None, None),
      TodoUpdate({"text", "priority", "completed"}, Some("Updated text"),
                 Some("HIGH"), Some(FALSE), None, None),
      TodoUpdate({"due_date", "reminder_time"}, None, None, None,
                 Some(Today + 1), Some(TimeOfDay(9, 0))),
      TodoUpdate({"priority"}, None, None, None, None, None),
      TodoUpdate({"text"}, None, None, None, None, None) }

----------------------------------------------------------------------------
(* database.py: the operations *)

\* get_todos()
GetTodos ==
    /\ store' = Seeded
    /\ nextId' = IdAfterSeed
    /\ ret' = [Ret("list", NeverId, None, "ok", None, store)
                  EXCEPT !.list = Snapshot(Seeded)]
    /\ UNCHANGED <<backend, twin, strictClock, now, writes>>

\* get_todos_count()
GetTodosCount ==
    /\ store' = Seeded
    /\ nextId' = IdAfterSeed
    /\ ret' = [Ret("count", NeverId, None, "ok", None, store)
                  EXCEPT !.num = Len(Seeded)]
    /\ UNCHANGED <<backend, twin, strictClock, now, writes>>

\* get_todo_by_id(todo_id)
GetTodoById(id) ==
    /\ store' = Seeded
    /\ nextId' = IdAfterSeed
    /\ ret' = Ret("get", id, None,
                  IF Lookup(Seeded, id) = None THEN "absent" ELSE "ok",
                  Lookup(Seeded, id), store)
    /\ UNCHANGED <<backend, twin, strictClock, now, writes>>

\* the row create_todo adds in the persistent branch: due_date and
\* reminder_time are not passed to TodoORM and stay NULL
NewRow(id, c, ts) ==
    [id            |-> id,
     text          |-> c.text,
     priority      |-> PriorityValue(c.priority),
     completed     |-> c.completed,
     due_date      |-> None,
     reminder_time |-> None,
     created_at    |-> ts,
     updated_at    |-> ts]

\* create_todo(todo_data): the persistent branch reads the clock once, the
\* in-memory branch once for created_at and once more for updated_at
CreateTodo(b) ==
    /\ ValidTodoBase(b)
    /\ writes < MaxWrites
    /\ \E d1 \in ClockSteps, d2 \in (IF UsePersistentStorage THEN {0} ELSE ClockSteps) :
         LET c   == TodoCreate(b)
             id  == GenerateId(IdAfterSeed)
             t1  == GetCurrentTimestamp(now, d1)
             t2  == GetCurrentTimestamp(t1, d2)
             new == IF UsePersistentStorage
                    THEN NewRow(id, c, t1)
                    ELSE Todo(id, c.text, c.priority, c.completed, t1, t2)
         IN  /\ store' = Append(Seeded, new)
             /\ nextId' = IdAfterSeed + 1
             /\ now' = t2
             /\ ret' = Ret("create", id, c, "ok", Some(AsModel(new)), store)
    /\ writes' = writes + 1
    /\ UNCHANGED <<backend, twin, strictClock>>

\* TodoCreate(**body) raises before create_todo is called
CreateRejected(b) ==
    /\ ~ValidTodoBase(b)
    /\ ret' = Ret("create", NeverId, b, "validation_error", None, store)
    /\ UNCHANGED <<backend, twin, strictClock, store, now, nextId, writes>>

\* faulty variant of UpdateGet: an absent priority falls back to the model's
\* default instead of the stored value (C6)
UpdateGetModelDefault(p, k, default) ==
    IF k \in p.fields THEN p[k]
    ELSE IF k = "priority" THEN Some("MEDIUM") ELSE Some(default)

\* update_data.get(k, default), with update_data = todo_data.dict(exclude_unset=True)
UpdateGet(p, k, default) == IF k \in p.fields THEN p[k] ELSE Some(default)

\* update_todo(todo_id, todo_data) on store s (after seeding), ts the clock reading
UpdateTodoResult(s, id, p, ts) ==
    LET i == IndexOf(s, id) IN
    IF i = 0
    THEN [store |-> s, out |-> "not_found", todo |-> None]
    ELSE IF UsePersistentStorage
    THEN IF "text" \in p.fields /\ p.text = None
         THEN \* row.text = None violates nullable=False at commit
              [store |-> s, out |-> "storage_error", todo |-> None]
         ELSE LET row == [s[i] EXCEPT
                            !.text = IF "text" \in p.fields THEN Val(p.text) ELSE @,
                            !.priority = IF "priority" \in p.fields /\ p.priority # None
                                         THEN PriorityValue(Val(p.priority)) ELSE @,
                            !.completed = IF "completed" \in p.fields /\ p.completed # None
                                          THEN Val(p.completed) ELSE @,
                            !.updated_at = ts]
              IN  [store |-> [s EXCEPT ![i] = row], out |-> "ok",
                   todo |-> Some(ToModel(row))]
    ELSE LET text      == UpdateGet(p, "text", s[i].text)
             priority  == UpdateGet(p, "priority", s[i].priority)
             completed == UpdateGet(p, "completed", s[i].completed)
         IN  IF text = None \/ priority = None \/ completed = None
             THEN \* Todo(...) rejects None for a required field
                  [store |-> s, out |-> "validation_error", todo |-> None]
             ELSE LET t == Todo(s[i].id, Val(text), Val(priority), Val(completed),
                                s[i].created_at, ts)
                  IN  [store |-> [s EXCEPT ![i] = t], out |-> "ok", todo |-> Some(t)]

UpdateTodo(id, p) ==
    LET found == IndexOf(Seeded, id) # 0 IN
    /\ ValidTodoUpdate(p)
    /\ found => writes < MaxWrites
    /\ \E d \in (IF found THEN ClockSteps ELSE {0}) :
         LET ts == GetCurrentTimestamp(now, d)
             r  == UpdateTodoResult(Seeded, id, p, ts)
         IN  /\ store' = r.store
             /\ now' = ts
             /\ ret' = Ret("update", id, p, r.out, r.todo, store)
    /\ nextId' = IdAfterSeed
    /\ writes' = IF found THEN writes + 1 ELSE writes
    /\ UNCHANGED <<backend, twin, strictClock>>

\* delete_todo(todo_id)
DeleteTodo(id) ==
    LET i == IndexOf(Seeded, id) IN
    /\ i # 0 => writes < MaxWrites
    /\ store' = IF i = 0 THEN Seeded ELSE RemoveAt(Seeded, i)
    /\ nextId' = IdAfterSeed
    /\ writes' = IF i = 0 THEN writes ELSE writes + 1
    /\ ret' = Ret("delete", id, None, IF i = 0 THEN "false" ELSE "true", None, store)
    /\ UNCHANGED <<backend, twin, strictClock, now>>

NotCompleted(t) == ~t.completed

\* clear_completed_todos()
ClearCompletedTodos ==
    /\ writes < MaxWrites
    /\ store' = SelectSeq(Seeded, NotCompleted)
    /\ nextId' = IdAfterSeed
    /\ writes' = writes + 1
    /\ ret' = [Ret("clear_completed", NeverId, None, "ok", None, store)
                  EXCEPT !.num = Len(Seeded) - Len(SelectSeq(Seeded, NotCompleted))]
    /\ UNCHANGED <<backend, twin, strictClock, now>>

----------------------------------------------------------------------------
(* The exceptions update_todo raises. A not-found is "raise ValueError",  *)
(* a Todo(...) that rejects a value raises pydantic's ValidationError,    *)
(* which derives from ValueError, and a commit that breaks a constraint   *)
(* raises SQLAlchemy's IntegrityError.                                    *)

\* the class of the exception behind an outcome of update_todo
ExceptionOf(out) ==
    CASE out = "not_found" -> "ValueError"
      [] out = "validation_error" -> "ValidationError"
      [] out = "storage_error" -> "IntegrityError"
      [] OTHER -> "none"

\* the class a class derives from
BaseOf(class) ==
    CASE class = "ValidationError" -> "ValueError"
      [] class = "ValueError" -> "Exception"
      [] class = "IntegrityError" -> "DBAPIError"
      [] class = "DBAPIError" -> "StatementError"
      [] class = "StatementError" -> "SQLAlchemyError"
      [] class = "SQLAlchemyError" -> "Exception"
      [] OTHER -> "BaseException"

\* issubclass(class, kind): what "except kind" catches
RECURSIVE IsSubclass(_, _)
IsSubclass(class, kind) ==
    IF class = kind THEN TRUE
    ELSE IF class = "BaseException" THEN FALSE
    ELSE IsSubclass(BaseOf(class), kind)

----------------------------------------------------------------------------
(* main.py *)

\* faulty variant of TogglePayload: the flag read is written back (C26)
TogglePayloadSame(existing_todo) ==
    TodoUpdate({"completed"}, None, None, Some(existing_todo.completed),
               None, None)

\* TodoUpdate(completed=not existing_todo.completed)
TogglePayload(existing_todo) ==
    TodoUpdate({"completed"}, None, None, Some(~existing_todo.completed),
               None, None)

\* toggle_todo_endpoint(todo_id): get_todo_by_id, then update_todo with
\* the negated flag
ToggleTodoEndpoint(id) ==
    LET existing == Lookup(Seeded, id) IN
    /\ existing # None => writes < MaxWrites
    /\ \E d \in (IF existing # None THEN ClockSteps ELSE {0}) :
         LET ts == GetCurrentTimestamp(now, d)
             p  == TogglePayload(Val(existing))
             r  == UpdateTodoResult(Seeded, id, p, ts)
         IN  IF existing = None
             THEN /\ store' = Seeded
                  /\ now' = now
                  /\ ret' = Ret("toggle", id, None, "http_404", None, store)
             ELSE /\ store' = r.store
                  /\ now' = ts
                  /\ ret' = Ret("toggle", id, p, r.out, r.todo, store)
    /\ nextId' = IdAfterSeed
    /\ writes' = IF existing = None THEN writes ELSE writes + 1
    /\ UNCHANGED <<backend, twin, strictClock>>

\* faulty variant of RoundHalfEven: truncation (C10)
RoundDown(num, den) == num \div den

\* round(num / den, 0) as Python rounds a float: to nearest, ties to even
RoundHalfEven(num, den) ==
    LET q == num \div den
        r == num % den
    IN  IF 2 * r > den \/ (2 * r = den /\ q % 2 = 1) THEN q + 1 ELSE q

\* faulty variant of IsCompleted: counts the todos that are not completed (C9)
IsCompletedNegated(t) == ~t.completed

\* the conditions of the list comprehensions of get_todos_stats
IsCompleted(t) == t.completed
IsHigh(t) == PriorityValue(t.priority) = "high"
IsMedium(t) == PriorityValue(t.priority) = "medium"
IsLow(t) == PriorityValue(t.priority) = "low"
IsOverdue(t) == ~t.completed /\ t.due_date # None /\ Val(t.due_date) < Today
IsDueToday(t) == ~t.completed /\ t.due_date # None /\ Val(t.due_date) = Today
\* faulty variant of IsUpcoming: the seventh day is left out (C27)
IsUpcomingBeforeNextWeek(t) ==
    /\ ~t.completed
    /\ t.due_date # None
    /\ Today < Val(t.due_date)
    /\ Val(t.due_date) < Today + 7

IsUpcoming(t) ==
    /\ ~t.completed
    /\ t.due_date # None
    /\ Today < Val(t.due_date)
    /\ Val(t.due_date) <= Today + 7

\* the body of get_todos_stats over the list get_todos() returned;
\* completion_rate in hundredths
TodosStats(todos) ==
    LET total     == Len(todos)
        completed == Len(SelectSeq(todos, IsCompleted))
    IN  [total              |-> total,
         active             |-> total - completed,
         completed          |-> completed,
         completion_rate    |-> IF total > 0
                                THEN RoundHalfEven(completed * 100 * 100, total)
                                ELSE 0,
         priority_breakdown |-> [high   |-> Len(SelectSeq(todos, IsHigh)),
                                 medium |-> Len(SelectSeq(todos, IsMedium)),
                                 low    |-> Len(SelectSeq(todos, IsLow))],
         overdue_count      |-> Len(SelectSeq(todos, IsOverdue)),
         due_today_count    |-> Len(SelectSeq(todos, IsDueToday)),
         upcoming_count     |-> Len(SelectSeq(todos, IsUpcoming))]

\* get_todos_stats()
GetTodosStats ==
    /\ store' = Seeded
    /\ nextId' = IdAfterSeed
    /\ ret' = [Ret("stats", NeverId, None, "ok", None, store)
                  EXCEPT !.list = Snapshot(Seeded),
                         !.stats = Some(TodosStats(Snapshot(Seeded)))]
    /\ UNCHANGED <<backend, twin, strictClock, now, writes>>

----------------------------------------------------------------------------
(* The store driven by any sequence of calls *)

Next ==
    \/ GetTodos
    \/ GetTodosCount
    \/ \E id \in AddressedIds : GetTodoById(id)
    \/ \E b \in CreateBodies : CreateTodo(b)
    \/ \E b \in CreateBodies : CreateRejected(b)
    \/ \E id \in AddressedIds, p \in UpdatePayloads : UpdateTodo(id, p)
    \/ \E id \in AddressedIds : DeleteTodo(id)
    \/ ClearCompletedTodos
    \/ \E id \in AddressedIds : ToggleTodoEndpoint(id)
    \/ GetTodosStats

Spec == Init /\ [][Next]_vars

----------------------------------------------------------------------------
(* The statistics over any snapshot of up to MaxSnapshot todos *)

\* a store of total records, the first done of them completed
StoreOf(b, total, done) ==
    [i \in 1..total |->
        [id            |-> i,
         text          |-> "Buy milk",
         priority      |-> IF b = "persistent"
                           THEN PriorityValue(SampleTodos[(i % 8) + 1].priority)
                           ELSE SampleTodos[(i % 8) + 1].priority,
         completed     |-> i <= done,
         due_date      |-> None,
         reminder_time |-> None,
         created_at    |-> SeedLatest + 1,
         updated_at    |-> SeedLatest + 1]]

InitStats ==
    /\ backend \in {"memory", "persistent"}
    /\ strictClock = TRUE
    /\ \E total \in 0..MaxSnapshot : \E done \in 0..total :
         /\ store = StoreOf(backend, total, done)
         /\ nextId = total + 1
    /\ now = SeedLatest + 1
    /\ writes = 0
    /\ ret = NoCall
    /\ twin = NoTwin

NextStats == GetTodosStats

SpecStats == InitStats /\ [][NextStats]_vars

----------------------------------------------------------------------------
(* The statistics over todos that carry a due date. No store call writes  *)
(* a due date, so such todos are in the in-memory list only when a caller *)
(* has put them there, as the fixtures of tests/conftest.py extend the    *)
(* list. A due date is a number of days from today, so a list drawn here  *)
(* stands for the same list on every day.                                 *)

\* yesterday, today, tomorrow, the seventh day from today and the eighth
DueOffsets == {0 - 1, 0, 1, 7, 8}

DueDates == {None} \cup {Some(Today + d) : d \in DueOffsets}

\* the list of n todos, todo i completed as done[i] says and due on due[i]
DueStoreOf(n, done, due) ==
    [i \in 1..n |->
        [Todo(i, "Buy milk", "MEDIUM", done[i], SeedLatest + 1, SeedLatest + 1)
            EXCEPT !.due_date = due[i]]]

InitDue ==
    /\ backend = "memory"
    /\ strictClock = TRUE
    /\ \E n \in 0..MaxDue :
         \E done \in [1..n -> BOOLEAN], due \in [1..n -> DueDates] :
            /\ store = DueStoreOf(n, done, due)
            /\ nextId = n + 1
    /\ now = SeedLatest + 1
    /\ writes = 0
    /\ ret = NoCall
    /\ twin = NoTwin

NextDue == GetTodosStats

SpecDue == InitDue /\ [][NextDue]_vars

----------------------------------------------------------------------------
(* main.py: the listing endpoint and its three query filters. Where the   *)
(* content of a text matters (search), a text is the tuple of its         *)
(* characters.                                                            *)

UpperCase ==
    <<"A", "B", "C", "D", "E", "F", "G", "H", "I", "J", "K", "L", "M",
      "N", "O", "P", "Q", "R", "S", "T", "U", "V", "W", "X", "Y", "Z">>

LowerCase ==
    <<"a", "b", "c", "d", "e", "f", "g", "h", "i", "j", "k", "l", "m",
      "n", "o", "p", "q", "r", "s", "t", "u", "v", "w", "x", "y", "z">>

\* str.lower() on one character
LowerChar(c) ==
    IF \E i \in 1..Len(UpperCase) : UpperCase[i] = c
    THEN LowerCase[CHOOSE i \in 1..Len(UpperCase) : UpperCase[i] = c]
    ELSE c

\* str.lower()
StrLower(t) == [i \in 1..Len(t) |-> LowerChar(t[i])]

\* "needle in hay" on two texts
StrIn(needle, hay) ==
    \E k \in 0..(Len(hay) - Len(needle)) :
        SubSeq(hay, k + 1, k + Len(needle)) = needle

\* faulty variant of FilterCompletion: an unrecognised value selects the
\* active todos (C11)
FilterCompletionDefaultActive(todos, filter) ==
    IF filter = Some("completed") THEN SelectSeq(todos, IsCompleted)
    ELSE IF filter \in {None, Some("all")} THEN todos
    ELSE SelectSeq(todos, NotCompleted)

\* if filter == "active": ... elif filter == "completed": ...
FilterCompletion(todos, filter) ==
    IF filter = Some("active") THEN SelectSeq(todos, NotCompleted)
    ELSE IF filter = Some("completed") THEN SelectSeq(todos, IsCompleted)
    ELSE todos

\* faulty variant of FilterSearch: the todo's text is not lower-cased (C12)
FilterSearchCaseSensitive(todos, search) ==
    IF (IF search = None THEN FALSE ELSE Val(search) # <<>>)
    THEN SelectSeq(todos, LAMBDA t : StrIn(StrLower(Val(search)), t.text))
    ELSE todos

\* if search: keep the todos with search.lower() in todo.text.lower()
FilterSearch(todos, search) ==
    IF (IF search = None THEN FALSE ELSE Val(search) # <<>>)
    THEN SelectSeq(todos,
                   LAMBDA t : StrIn(StrLower(Val(search)), StrLower(t.text)))
    ELSE todos

\* if priority: keep the todos with todo.priority == priority (a Priority
\* member equals the string that is its value)
FilterPriority(todos, priority) ==
    IF (IF priority = None THEN FALSE ELSE Val(priority) # "")
    THEN SelectSeq(todos,
                   LAMBDA t : PriorityValue(t.priority) = Val(priority))
    ELSE todos

\* the query parameters of GET /api/todos
Query(filter, search, priority) ==
    [filter |-> filter, search |-> search, priority |-> priority]

\* get_todos_endpoint(filter, search, priority)
GetTodosEndpoint(filter, search, priority) ==
    /\ store' = Seeded
    /\ nextId' = IdAfterSeed
    /\ ret' = [Ret("list_endpoint", NeverId, Query(filter, search, priority),
                   "ok", None, store)
                  EXCEPT !.list =
                      FilterPriority(
                          FilterSearch(
                              FilterCompletion(Snapshot(Seeded), filter),
                              search),
                          priority)]
    /\ UNCHANGED <<backend, twin, strictClock, now, writes>>

----------------------------------------------------------------------------
(* The listing endpoint over any stored list of up to MaxListed todos     *)

\* the todos a stored list is drawn from: texts that differ in letter case
\* from the search text or do not hold it, two priorities, both completion
\* states
ListedKinds ==
    {[text |-> <<"M", "i", "l", "k">>, priority |-> "HIGH", completed |-> FALSE],
     [text |-> <<"M", "i", "l", "k">>, priority |-> "HIGH", completed |-> TRUE],
     [text |-> <<"t", "e", "a">>, priority |-> "HIGH", completed |-> FALSE],
     [text |-> <<"t", "e", "a">>, priority |-> "LOW", completed |-> FALSE]}

\* the stored lists of n records
ListsOf(b, n) ==
    {[i \in 1..n |->
        [id            |-> i,
         text          |-> kind[i].text,
         priority      |-> IF b = "persistent"
                           THEN PriorityValue(kind[i].priority)
                           ELSE kind[i].priority,
         completed     |-> kind[i].completed,
         due_date      |-> None,
         reminder_time |-> None,
         created_at    |-> SeedLatest + 1,
         updated_at    |-> SeedLatest + 1]] :
      kind \in [1..n -> ListedKinds]}

\* the values of the query parameters: absent, empty, matching in another
\* letter case, unrecognised
FilterValues ==
    {None, Some("all"), Some("active"), Some("completed"), Some("done")}

SearchValues == {None, Some(<<>>), Some(<<"m", "I">>)}

PriorityValues == {None, Some(""), Some("high"), Some("HIGH")}

\* the in-memory list is taken non-empty: an empty one is replaced by the
\* sample data before it is filtered
InitFilter ==
    /\ backend \in {"memory", "persistent"}
    /\ strictClock = TRUE
    /\ \E n \in (IF UsePersistentStorage THEN 0 ELSE 1)..MaxListed :
         /\ store \in ListsOf(backend, n)
         /\ nextId = n + 1
    /\ now = SeedLatest + 1
    /\ writes = 0
    /\ ret = NoCall
    /\ twin = NoTwin

NextFilter ==
    \E filter \in FilterValues, search \in SearchValues,
       priority \in PriorityValues :
        GetTodosEndpoint(filter, search, priority)

SpecFilter == InitFilter /\ [][NextFilter]_vars

----------------------------------------------------------------------------
(* An update payload that TodoUpdate refuses: a reminder without a due    *)
(* date. The exception is raised where the payload is built, before       *)
(* update_todo is called.                                                 *)

RefusedUpdatePayloads ==
    { TodoUpdate({"reminder_time"}, None, None, None,
                 None, Some(TimeOfDay(9, 0))) }

\* TodoUpdate(**body) raises
UpdateRejected(id, p) ==
    /\ ~ValidTodoUpdate(p)
    /\ ret' = Ret("update", id, p, "validation_error", None, store)
    /\ UNCHANGED <<backend, twin, strictClock, store, now, nextId, writes>>

NextValidated ==
    \/ Next
    \/ \E id \in AddressedIds, p \in RefusedUpdatePayloads :
          UpdateRejected(id, p)

SpecValidated == Init /\ [][NextValidated]_vars

----------------------------------------------------------------------------
(* The caller of the store and the Todo objects it is handed. On the      *)
(* in-memory backend get_todo_by_id returns the element of _todos_db,     *)
(* create_todo and update_todo return the object they have just stored    *)
(* and get_todos returns _todos_db.copy(), a new list of the same         *)
(* objects. On the relational backend _to_model builds a new Todo from    *)
(* the row, which no session holds any more.                              *)

\* the ids of the Todos the last store call handed to its caller
ReturnedIds ==
    IF ret.op \notin {"list", "get", "create", "update"} THEN {}
    ELSE (IF ret.todo = None THEN {} ELSE {Val(ret.todo).id})
         \cup {ret.list[i].id : i \in 1..Len(ret.list)}

\* the object the store handed out is the stored one
HandsOutStored == ~UsePersistentStorage

\* the caller assigns "todo.completed = not todo.completed" on a Todo the
\* last call handed to it (the models allow assignment)
CallerChangesReturned(id) ==
    /\ id \in ReturnedIds
    /\ writes < MaxWrites
    /\ store' = IF HandsOutStored /\ IndexOf(store, id) # 0
                THEN [store EXCEPT ![IndexOf(store, id)].completed = ~@]
                ELSE store
    /\ writes' = writes + 1
    /\ ret' = Ret("caller_change", id, None, "ok", None, store)
    /\ UNCHANGED <<backend, twin, strictClock, now, nextId>>

NextCaller ==
    \/ Next
    \/ \E id \in AddressedIds : CallerChangesReturned(id)

SpecCaller == Init /\ [][NextCaller]_vars

----------------------------------------------------------------------------
(* main.py: the routes and the dispatch of a request. A path is the tuple *)
(* of its segments; a segment is a literal word or the text of an id.     *)
(* The router tries the routes in the order of their registration and     *)
(* hands the request to the first one whose method and path match; a      *)
(* path parameter matches any one segment.                                *)

\* a word is no generated id: as a todo_id it names no record
Word(w) == [word |-> w, id |-> NeverId]

IdText(id) == [word |-> "uuid", id |-> id]

PathParam == "{todo_id}"

Route(method, pattern, handler) ==
    [method |-> method, pattern |-> pattern, handler |-> handler]

\* the @app.<method>(path) decorators in the order they are executed
Routes ==
    << Route("GET", <<>>, "root"),
       Route("GET", <<"health">>, "health_check"),
       Route("GET", <<"api", "todos">>, "get_todos_endpoint"),
       Route("GET", <<"api", "todos", PathParam>>, "get_todo"),
       Route("POST", <<"api", "todos">>, "create_todo_endpoint"),
       Route("PUT", <<"api", "todos", PathParam>>, "update_todo_endpoint"),
       Route("DELETE", <<"api", "todos", PathParam>>, "delete_todo_endpoint"),
       Route("PATCH", <<"api", "todos", PathParam, "toggle">>,
             "toggle_todo_endpoint"),
       Route("GET", <<"api", "todos", "stats", "summary">>, "get_todos_stats"),
       Route("GET", <<"api", "todos", "reminders">>, "get_upcoming_reminders"),
       Route("DELETE", <<"api", "todos", "completed">>,
             "clear_completed_todos") >>

RouteMatches(route, method, path) ==
    /\ route.method = method
    /\ Len(route.pattern) = Len(path)
    /\ \A k \in 1..Len(path) :
          IF route.pattern[k] = PathParam THEN TRUE
          ELSE route.pattern[k] = path[k].word

\* the handler of the first matching route
Dispatch(method, path) ==
    LET matching == {i \in 1..Len(Routes) :
                        RouteMatches(Routes[i], method, path)}
    IN  IF matching = {} THEN "none"
        ELSE Routes[CHOOSE i \in matching :
                        \A j \in matching : i <= j].handler

\* the value bound to todo_id
TodoIdOf(path) == path[3].id

Response(s, out, todo, list, num) ==
    [store |-> s, out |-> out, todo |-> todo, list |-> list, num |-> num]

\* get_todo(todo_id) on the store s
GetTodoResponse(s, id) ==
    IF Lookup(s, id) = None
    THEN Response(s, "http_404", None, <<>>, 0)
    ELSE Response(s, "ok", Lookup(s, id), <<>>, 0)

\* delete_todo_endpoint(todo_id) on the store s
DeleteTodoResponse(s, id) ==
    IF Lookup(s, id) = None
    THEN Response(s, "http_404", None, <<>>, 0)
    ELSE Response(RemoveAt(s, IndexOf(s, id)), "ok", None, <<>>, 0)

\* "for todo in completed_todos: delete_todo(todo.id)"
RECURSIVE DeleteEach(_, _)
DeleteEach(s, todos) ==
    IF todos = <<>> THEN s
    ELSE DeleteEach(IF IndexOf(s, Head(todos).id) = 0 THEN s
                    ELSE RemoveAt(s, IndexOf(s, Head(todos).id)),
                    Tail(todos))

\* clear_completed_todos() of main.py on the store s
ClearCompletedResponse(s) ==
    LET completed_todos == SelectSeq(Snapshot(s), IsCompleted)
    IN  Response(DeleteEach(s, completed_todos), "ok", None, <<>>,
                 Len(completed_todos))

\* datetime.combine(due_date, reminder_time), the clock reading t
Combine(d, tm, t) == ((t \div (24 * 60)) + (d - Today)) * (24 * 60) + tm

\* timedelta(hours=1)
ReminderWindow == 60

\* the loop of get_upcoming_reminders over todos at the clock reading t
UpcomingReminders(todos, t) ==
    SelectSeq(todos,
              LAMBDA todo :
                  IF todo.due_date = None \/ todo.reminder_time = None
                     \/ todo.completed
                  THEN FALSE
                  ELSE LET reminder_datetime ==
                               Combine(Val(todo.due_date),
                                       Val(todo.reminder_time), t)
                       IN  t <= reminder_datetime
                           /\ reminder_datetime <= t + ReminderWindow)

\* get_upcoming_reminders() on the store s
RemindersResponse(s, t) ==
    Response(s, "ok", None, UpcomingReminders(Snapshot(s), t),
             Len(UpcomingReminders(Snapshot(s), t)))

\* a request for /api/todos/<segment>: dispatch, then the handler
HttpRequest(method, path) ==
    LET handler == Dispatch(method, path)
        id == TodoIdOf(path)
        r  == CASE handler = "get_todo" -> GetTodoResponse(Seeded, id)
                [] handler = "delete_todo_endpoint" ->
                       DeleteTodoResponse(Seeded, id)
                [] handler = "clear_completed_todos" ->
                       ClearCompletedResponse(Seeded)
                [] handler = "get_upcoming_reminders" ->
                       RemindersResponse(Seeded, now)
                [] OTHER -> Response(Seeded, "http_404", None, <<>>, 0)
    IN  /\ r.store # Seeded => writes < MaxWrites
        /\ store' = r.store
        /\ nextId' = IdAfterSeed
        /\ writes' = IF r.store # Seeded THEN writes + 1 ELSE writes
        /\ ret' = [Ret("http", id,
                       [method |-> method, path |-> path,
                        handler |-> handler],
                       r.out, r.todo, store)
                      EXCEPT !.list = r.list, !.num = r.num]
        /\ UNCHANGED <<backend, twin, strictClock, now>>

ApiTodos(segment) == <<Word("api"), Word("todos"), segment>>

\* a creation payload whose reminder falls within the hour after the clock
\* reading of the initial state (11:46)
ReminderBodies ==
    { Body(FieldNames, "Take pills", "high", FALSE,
           Some(Today), Some(TimeOfDay(12, 0))) }

NextHttp ==
    \/ Next
    \/ \E b \in ReminderBodies : CreateTodo(b)
    \/ \E method \in {"GET", "DELETE"},
          segment \in {Word("completed"), Word("reminders")}
                      \cup {IdText(id) : id \in AddressedIds} :
          HttpRequest(method, ApiTodos(segment))

SpecHttp == Init /\ [][NextHttp]_vars

----------------------------------------------------------------------------
(* Two processes, one per backend, started empty and driven by the same   *)
(* sequence of calls. The variables hold the process that is to make the  *)
(* next call, twin holds the other one. The in-memory process makes a     *)
(* call, then the relational process makes the same call; then the two    *)
(* results stand side by side.                                            *)

\* the process held by the variables
Process ==
    [backend |-> backend, store |-> store, now |-> now, nextId |-> nextId,
     writes |-> writes, ret |-> ret]

\* a process that has not yet made the call of the current step
Awaiting(r) == [r EXCEPT !.op = "pending"]

InitPair ==
    /\ backend = "memory"
    /\ strictClock = TRUE
    /\ store = <<>>
    /\ now = SeedLatest + 1
    /\ nextId = 1
    /\ writes = 0
    /\ ret = Awaiting(NoCall)
    /\ twin = [phase   |-> "lead",
               process |-> [backend |-> "persistent", store |-> <<>>,
                            now |-> SeedLatest + 1, nextId |-> 1,
                            writes |-> 0, ret |-> NoCall]]

\* position of the record a call addressed in the store it was made on;
\* 0 when the id names no record
AddressedPosition(r) ==
    IF r.op = "create" \/ (\A i \in 1..Len(r.pre) : r.pre[i].id # r.id) THEN 0
    ELSE CHOOSE i \in 1..Len(r.pre) : r.pre[i].id = r.id

\* r and q are the same call: the same operation with the same argument,
\* addressing records at the same position
SameCall(r, q) ==
    /\ r.op = q.op
    /\ r.arg = q.arg
    /\ (r.op = "create" => (r.out = "ok") = (q.out = "ok"))
    /\ AddressedPosition(r) = AddressedPosition(q)

\* the process held by the variables makes the call of this step
LeadCalls ==
    /\ twin.phase = "lead"
    /\ ret.op = "pending"
    /\ Next

\* the other process takes its turn
TakeTurns ==
    /\ twin.phase \in {"lead", "follow"}
    /\ ret.op # "pending"
    /\ backend' = twin.process.backend
    /\ store' = twin.process.store
    /\ now' = twin.process.now
    /\ nextId' = twin.process.nextId
    /\ writes' = twin.process.writes
    /\ ret' = Awaiting(twin.process.ret)
    /\ twin' = [phase   |-> IF twin.phase = "lead" THEN "follow" ELSE "lead",
                process |-> Process]
    /\ UNCHANGED strictClock

\* the process held by the variables repeats the call the other one made
FollowCalls ==
    /\ twin.phase = "follow"
    /\ ret.op = "pending"
    /\ Next
    /\ SameCall(ret', twin.process.ret)

NextPair ==
    \/ LeadCalls
    \/ TakeTurns
    \/ FollowCalls

SpecPair == InitPair /\ [][NextPair]_vars

----------------------------------------------------------------------------
(* Requests that run at the same time: the threads of the test client, or *)
(* the workers that share the table. A request is the sequence of the     *)
(* store calls its handler makes; the steps of different requests         *)
(* interleave. A relational store call is one transaction and one step.   *)
(* An in-memory store call is the steps "if not _todos_db", then          *)
(* "_todos_db = []" and the appending of the sample data when the list    *)
(* was seen empty, then its search and write. twin holds the requests:    *)
(* what each one is, where it stands, what it has read, how it answered.  *)

RequestKinds == {"create", "put", "delete", "toggle"}

Requests == 1..MaxRequests

\* a request that has not been received yet
NoRequest ==
    [kind |-> "none", id |-> NeverId, call |-> 0, at |-> "new",
     existing |-> None, status |-> 0, made |-> NeverId]

InitRequests ==
    /\ backend \in {"memory", "persistent"}
    /\ strictClock = TRUE
    /\ \E total \in 0..MaxStarted : \E done \in {0, total} :
         /\ store = StoreOf(backend, total, done)
         /\ nextId = total + 1
         /\ twin = [phase |-> "requests",
                    start |-> StoreOf(backend, total, done),
                    req   |-> [r \in Requests |-> NoRequest]]
    /\ now = SeedLatest + 1
    /\ writes = 0
    /\ ret = NoCall

\* where a store call starts: the in-memory branches look at the list first
CallEntry == IF UsePersistentStorage THEN "body" ELSE "check"

Req(r) == twin.req[r]

\* request r moves on: its fields named in the record change become change
Moved(r, change) ==
    [twin EXCEPT !.req[r] =
        [f \in DOMAIN Req(r) |->
            IF f \in DOMAIN change THEN change[f] ELSE Req(r)[f]]]

\* the body of POST /api/todos in tests/test_performance.py
ConcurrentBody ==
    Body({"text", "priority", "completed"}, "Concurrent todo", "medium",
         FALSE, None, None)

\* the payload of the PUT requests
PutPayload == TodoUpdate({"completed"}, None, None, Some(TRUE), None, None)

\* a request arrives and its handler is about to make its first store call
Receive(r, kind, id) ==
    /\ Req(r).at = "new"
    /\ \A q \in Requests : q < r => Req(q).at # "new"
    /\ twin' = Moved(r, [kind |-> kind, id |-> id, call |-> 1,
                         at |-> CallEntry])
    /\ UNCHANGED <<backend, strictClock, store, now, nextId, writes, ret>>

\* "if not _todos_db:"
CheckEmpty(r) ==
    /\ Req(r).at = "check"
    /\ twin' = Moved(r, [at |-> IF store = <<>> THEN "reset" ELSE "body"])
    /\ UNCHANGED <<backend, strictClock, store, now, nextId, writes, ret>>

\* initialize_sample_data: "_todos_db = []"
ResetList(r) ==
    /\ Req(r).at = "reset"
    /\ store' = <<>>
    /\ twin' = Moved(r, [at |-> "fill"])
    /\ UNCHANGED <<backend, strictClock, now, nextId, writes, ret>>

\* initialize_sample_data: the loop that appends the sample todos to the
\* list _todos_db names now
FillSamples(r) ==
    /\ Req(r).at = "fill"
    /\ store' = store \o InitializeSampleData(nextId)
    /\ nextId' = nextId + Len(SampleTodos)
    /\ twin' = Moved(r, [at |-> "body"])
    /\ UNCHANGED <<backend, strictClock, now, writes, ret>>

\* create_todo_endpoint: create_todo appends the new todo or adds the row
AppendNew(r) ==
    /\ Req(r).at = "body"
    /\ Req(r).kind = "create"
    /\ LET c   == TodoCreate(ConcurrentBody)
           id  == GenerateId(nextId)
           ts  == GetCurrentTimestamp(now, 1)
           new == IF UsePersistentStorage
                  THEN NewRow(id, c, ts)
                  ELSE Todo(id, c.text, c.priority, c.completed, ts, ts)
       IN  /\ store' = Append(store, new)
           /\ nextId' = nextId + 1
           /\ now' = ts
           /\ twin' = Moved(r, [at |-> "done", status |-> 200, made |-> id])
    /\ UNCHANGED <<backend, strictClock, writes, ret>>

\* the existence check of update_todo_endpoint, delete_todo_endpoint and
\* toggle_todo_endpoint: get_todo_by_id, 404 when it returns None
LookUp(r) ==
    /\ Req(r).at = "body"
    /\ Req(r).call = 1
    /\ Req(r).kind \in {"put", "delete", "toggle"}
    /\ twin' = IF Lookup(store, Req(r).id) = None
               THEN Moved(r, [at |-> "done", status |-> 404])
               ELSE Moved(r, [call |-> 2, at |-> CallEntry,
                              existing |-> Lookup(store, Req(r).id)])
    /\ UNCHANGED <<backend, strictClock, store, now, nextId, writes, ret>>

\* update_todo of update_todo_endpoint and toggle_todo_endpoint: its
\* ValueError is caught by "except Exception" and answered 500
WriteUpdate(r) ==
    /\ Req(r).at = "body"
    /\ Req(r).call = 2
    /\ Req(r).kind \in {"put", "toggle"}
    /\ LET p  == IF Req(r).kind = "put" THEN PutPayload
                 ELSE TogglePayload(Val(Req(r).existing))
           ts == GetCurrentTimestamp(now, 1)
           u  == UpdateTodoResult(store, Req(r).id, p, ts)
       IN  /\ store' = u.store
           /\ now' = ts
           /\ twin' = Moved(r, [at |-> "done",
                                status |-> IF u.out = "ok" THEN 200 ELSE 500])
    /\ UNCHANGED <<backend, strictClock, nextId, writes, ret>>

\* delete_todo of delete_todo_endpoint: False is answered 500
RemoveRecord(r) ==
    /\ Req(r).at = "body"
    /\ Req(r).call = 2
    /\ Req(r).kind = "delete"
    /\ store' = IF IndexOf(store, Req(r).id) = 0 THEN store
                ELSE RemoveAt(store, IndexOf(store, Req(r).id))
    /\ twin' = Moved(r, [at |-> "done",
                         status |-> IF IndexOf(store, Req(r).id) = 0
                                    THEN 500 ELSE 200])
    /\ UNCHANGED <<backend, strictClock, now, nextId, writes, ret>>

\* the ids the requests address: the first stored record and an unknown id
RequestedIds == {NeverId, 1}

NextRequests ==
    \E r \in Requests :
        \/ \E kind \in RequestKinds, id \in RequestedIds :
              Receive(r, kind, IF kind = "create" THEN NeverId ELSE id)
        \/ CheckEmpty(r)
        \/ ResetList(r)
        \/ FillSamples(r)
        \/ AppendNew(r)
        \/ LookUp(r)
        \/ WriteUpdate(r)
        \/ RemoveRecord(r)

SpecRequests == InitRequests /\ [][NextRequests]_vars

----------------------------------------------------------------------------
(* The session of a relational store call. Every relational branch is     *)
(* "with next(get_db_session()) as db:". get_db_session creates the       *)
(* session and yields it; the generator object is dropped as soon as next *)
(* has returned, which runs its "finally: db.close()" on the session that *)
(* has not been used yet; the body then uses the session, whose first     *)
(* statement begins a transaction; leaving the with block, by return or   *)
(* by exception, closes the session. twin holds the call in progress:     *)
(* opened counts the sessions it created, active says that the session    *)
(* holds a transaction, pending that the transaction has changes that are *)
(* not committed, staged is the table the changes make, raised the        *)
(* exception on its way out.                                              *)

StoreOps ==
    {"list", "get", "count", "create", "update", "delete", "clear_completed"}

NoSession ==
    [phase |-> "session", op |-> "none", id |-> NeverId, pc |-> "idle",
     opened |-> 0, active |-> FALSE, pending |-> FALSE, staged |-> None,
     committed |-> FALSE, raised |-> "none", payload |-> None]

InitSession ==
    /\ backend = "persistent"
    /\ strictClock = TRUE
    /\ \E total \in 0..MaxStarted : \E done \in {0, total} :
         /\ store = StoreOf(backend, total, done)
         /\ nextId = total + 1
    /\ now = SeedLatest + 1
    /\ writes = 0
    /\ ret = NoCall
    /\ twin = NoSession

\* faulty variant of SessionClose: a session whose block was left by an
\* exception stays as it is (C28)
SessionCloseUnlessRaised(s) ==
    IF s.raised # "none" THEN s
    ELSE [s EXCEPT !.active = FALSE, !.pending = FALSE]

\* Session.close(), which the generator's finally and the with block's exit
\* call: the transaction is rolled back and the connection released
SessionClose(s) == [s EXCEPT !.active = FALSE, !.pending = FALSE]

\* a store function is called: get_db_session runs up to its yield
OpenSession(op, id, p) ==
    /\ twin.pc \in {"idle", "ended"}
    /\ op \in {"create", "update", "delete", "clear_completed"}
          => writes < MaxWrites
    /\ twin' = [NoSession EXCEPT !.op = op, !.id = id, !.pc = "yielded",
                                 !.opened = 1,
                                 !.payload = IF op = "update" THEN Some(p)
                                             ELSE None]
    /\ UNCHANGED <<backend, strictClock, store, now, nextId, writes, ret>>

\* the generator is dropped: "finally: db.close()"
DropGenerator ==
    /\ twin.pc = "yielded"
    /\ twin' = [SessionClose(twin) EXCEPT !.pc = "body"]
    /\ UNCHANGED <<backend, strictClock, store, now, nextId, writes, ret>>

\* what the body of the with block stages: the table after the call, or
\* None when the call writes nothing (for a row whose text is set to null
\* the table is left as it is: that write never gets past db.commit())
StagedBy(op, id, p, ts) ==
    CASE op = "create" ->
            Some(Append(store,
                        NewRow(GenerateId(nextId), TodoCreate(ConcurrentBody), ts)))
      [] op = "update" ->
            IF IndexOf(store, id) = 0 THEN None
            ELSE Some(UpdateTodoResult(store, id, Val(p), ts).store)
      [] op = "delete" ->
            IF IndexOf(store, id) = 0 THEN None
            ELSE Some(RemoveAt(store, IndexOf(store, id)))
      [] op = "clear_completed" -> Some(SelectSeq(store, NotCompleted))
      [] OTHER -> None

\* the statements of the with block up to db.commit(): the query begins
\* the transaction, db.add / db.delete / the assignments to the row stage
\* the write; update_todo raises ValueError when the row is missing
RunBody ==
    /\ twin.pc = "body"
    /\ LET ts == GetCurrentTimestamp(now, 1)
           w  == StagedBy(twin.op, twin.id, twin.payload, ts)
       IN  /\ twin' = [twin EXCEPT
                         !.active = TRUE,
                         !.pending = (w # None),
                         !.staged = w,
                         !.raised = IF twin.op = "update" /\ w = None
                                    THEN "not_found" ELSE "none",
                         !.pc = IF w = None THEN "leaving" ELSE "staged"]
           /\ now' = IF twin.op \in {"create", "update"} /\ w # None
                     THEN ts ELSE now
    /\ UNCHANGED <<backend, strictClock, store, nextId, writes, ret>>

\* db.commit(): the staged table is written, or the NOT NULL constraint of
\* todos.text fails and the exception leaves the block with the changes
\* still pending
Commit ==
    /\ twin.pc = "staged"
    /\ LET fails == /\ twin.op = "update"
                    /\ UpdateTodoResult(store, twin.id, Val(twin.payload),
                                        now).out = "storage_error"
       IN  /\ twin' = [twin EXCEPT
                         !.pending = fails,
                         !.committed = ~fails,
                         !.raised = IF fails THEN "storage_error" ELSE "none",
                         !.pc = "leaving"]
           /\ store' = IF fails THEN store ELSE Val(twin.staged)
           /\ writes' = writes + 1
           /\ nextId' = IF twin.op = "create" THEN nextId + 1 ELSE nextId
    /\ UNCHANGED <<backend, strictClock, now, ret>>

\* the with block is left, by return or by the exception: Session.__exit__
LeaveBlock ==
    /\ twin.pc = "leaving"
    /\ twin' = [SessionClose(twin) EXCEPT !.pc = "ended"]
    /\ UNCHANGED <<backend, strictClock, store, now, nextId, writes, ret>>

NextSession ==
    \/ \E op \in StoreOps, id \in RequestedIds, p \in UpdatePayloads :
          OpenSession(op, id, p)
    \/ DropGenerator
    \/ RunBody
    \/ Commit
    \/ LeaveBlock

SpecSession == InitSession /\ [][NextSession]_vars

----------------------------------------------------------------------------
(* Vocabulary of the properties *)

Absent(s, id) == \A i \in 1..Len(s) : s[i].id # id

RecordOf(s, id) == s[CHOOSE i \in 1..Len(s) : s[i].id = id]

IdsOf(s) == [i \in 1..Len(s) |-> s[i].id]

\* field f of Todo t as a TodoUpdate carries it: None or a present value
Field(t, f) == IF f \in {"due_date", "reminder_time"} THEN t[f] ELSE Some(t[f])

Succeeded(ops) == ret.op \in ops /\ ret.out = "ok"

\* the Todo the last call returned, the addressed record before the call as
\* a Todo, and what get(id) returns now
Returned == Val(ret.todo)
Before == AsModel(RecordOf(ret.pre, ret.id))
GetNow == Lookup(store, ret.id)

----------------------------------------------------------------------------
(* C1: for every valid creation payload, create returns a Todo whose text,
   priority, completed, due_date and reminder_time equal the payload's
   (defaults applied), and a following get(id) returns the same values. *)
C1_CreateReturnsPayload ==
    Succeeded({"create"}) =>
        /\ \A f \in FieldNames : Returned[f] = ret.arg[f]
        /\ GetNow # None
        /\ \A f \in FieldNames : Val(GetNow)[f] = ret.arg[f]

(* C2: for every successful create, on either backend and whether or not the
   clock advances between two readings, the returned Todo has created_at
   equal to updated_at. *)
C2_CreatedAtEqualsUpdatedAt ==
    Succeeded({"create"}) => Returned.created_at = Returned.updated_at

(* C3: in every reachable state no two stored records have the same id, and
   an update (or toggle) leaves the ids of the stored records as they were
   and returns the Todo with the addressed id. *)
C3_IdsUnique ==
    /\ \A i, j \in 1..Len(store) : store[i].id = store[j].id => i = j
    /\ Succeeded({"update", "toggle"}) =>
           /\ IdsOf(store) = IdsOf(ret.pre)
           /\ Returned.id = ret.id

C3_Witness ==
    /\ Succeeded({"update"})
    /\ Len(store) > Len(SampleTodos)
    /\ ret.id > Len(SampleTodos)

(* C4: a call addressing an id that is not in the store answers: get absent,
   update the not-found error, delete false; and a delete(id) that follows a
   successful delete(id) answers false. *)
C4_MissingId ==
    [][ /\ (ret'.op = "get" /\ Absent(store, ret'.id)) =>
               (ret'.out = "absent" /\ ret'.todo = None)
        /\ (ret'.op = "update" /\ Absent(store, ret'.id)) =>
               ret'.out = "not_found"
        /\ (ret'.op = "delete" /\ Absent(store, ret'.id)) =>
               ret'.out = "false"
        /\ (ret.op = "delete" /\ ret.out = "true" /\ ret'.op = "delete"
                /\ ret'.id = ret.id) =>
               ret'.out = "false" ]_vars

C4_Witness ==
    /\ ret.op = "delete"
    /\ ret.out = "false"
    /\ ret.id # NeverId
    /\ Absent(ret.pre, ret.id)

(* C5, as stated: a get, update or delete addressing an id that is not in the
   store leaves the stored collection as it was, for every pre-state
   including the empty store. *)
C5_MissingIdLeavesStore ==
    (ret.op \in {"get", "update", "delete"} /\ Absent(ret.pre, ret.id)) =>
        store = ret.pre

(* C5, amended: such a call leaves the stored collection as it was whenever
   the store held a record before the call, and always on the relational
   backend; on an empty in-memory store it seeds the sample dataset and
   changes nothing else. *)
C5_MissingIdLeavesStoreOrSeeds ==
    (ret.op \in {"get", "update", "delete"} /\ Absent(ret.pre, ret.id)) =>
        IF backend = "memory" /\ ret.pre = <<>>
        THEN store = InitializeSampleData(nextId - Len(SampleTodos))
        ELSE store = ret.pre

C5_Witness ==
    /\ ret.op = "delete"
    /\ Absent(ret.pre, ret.id)
    /\ Len(ret.pre) >= 2
    /\ store = ret.pre

(* C6: after a successful update of a stored Todo T, every field that is not
   present in the payload has T's value in the returned Todo and in the
   stored record. *)
C6_AbsentFieldsKept ==
    Succeeded({"update", "toggle"}) =>
        /\ GetNow # None
        /\ \A f \in FieldNames \ ret.arg.fields :
               /\ Returned[f] = Before[f]
               /\ Val(GetNow)[f] = Before[f]
               /\ RecordOf(store, ret.id)[f] = RecordOf(ret.pre, ret.id)[f]

C6_Witness ==
    /\ Succeeded({"update"})
    /\ ret.arg.fields = {"completed"}
    /\ Before.priority = "HIGH"
    /\ ~Before.completed

(* C7: after a successful update with a valid payload, every field the
   payload sets to a value has that value in the returned Todo and in a
   following get(id). *)
C7_PresentFieldsApplied ==
    Succeeded({"update"}) =>
        /\ GetNow # None
        /\ \A f \in ret.arg.fields :
               ret.arg[f] # None =>
                   /\ Field(Returned, f) = ret.arg[f]
                   /\ Field(Val(GetNow), f) = ret.arg[f]

(* C8: an update or toggle never changes created_at, and when every clock
   reading is later than the one before, the record's updated_at after a
   successful update or toggle is strictly greater than before it. *)
C8_UpdatedAtIncreases ==
    Succeeded({"update", "toggle"}) =>
        /\ Returned.created_at = Before.created_at
        /\ RecordOf(store, ret.id).created_at = Before.created_at
        /\ strictClock =>
               /\ Returned.updated_at > Before.updated_at
               /\ RecordOf(store, ret.id).updated_at > Before.updated_at

C8_Witness ==
    /\ strictClock
    /\ Succeeded({"toggle"})
    /\ Before.updated_at > SeedLatest

(* C9: for every snapshot, the empty one included, the statistics satisfy
   active + completed = total, and completed is the number of todos of the
   snapshot whose completed flag is true. *)
C9_ActivePlusCompleted ==
    ret.op = "stats" =>
        LET st == Val(ret.stats) IN
        /\ st.active + st.completed = st.total
        /\ st.completed =
               Cardinality({i \in 1..Len(ret.list) : ret.list[i].completed})
        /\ st.total = Len(ret.list)

C9_Witness ==
    /\ ret.op = "stats"
    /\ Val(ret.stats).completed >= 2
    /\ Val(ret.stats).active >= 2

(* C10: completion_rate is 0 when total is 0; otherwise it is a multiple of
   0.01 nearest to completed * 100 / total, so it lies between 0 and 100, and
   1 completed of 4 gives 25.0. *)
C10_CompletionRate ==
    ret.op = "stats" =>
        LET st   == Val(ret.stats)
            diff == st.completion_rate * st.total - st.completed * 100 * 100
        IN  /\ st.total = 0 => st.completion_rate = 0
            /\ st.total > 0 => (2 * diff <= st.total /\ -2 * diff <= st.total)
            /\ st.completion_rate >= 0
            /\ st.completion_rate <= 100 * 100
            /\ (st.total = 4 /\ st.completed = 1) => st.completion_rate = 25 * 100

C10_Witness ==
    /\ ret.op = "stats"
    /\ Val(ret.stats).total = 4
    /\ Val(ret.stats).completed = 1
    /\ Val(ret.stats).completion_rate = 25 * 100

----------------------------------------------------------------------------
(* Vocabulary of the listing properties *)

\* the elements of s at the positions in S, in the order of s
Pick(s, S) ==
    [k \in 1..Cardinality(S) |->
        s[CHOOSE i \in S : Cardinality({j \in S : j < i}) = k - 1]]

\* what get_todos handed to the listing endpoint, and the query it served
Listed == Snapshot(ret.pre)
Asked == ret.arg

\* a query parameter that is absent or empty applies no condition
MeetsCompletion(t, filter) ==
    IF filter = Some("active") THEN ~t.completed
    ELSE IF filter = Some("completed") THEN t.completed
    ELSE TRUE

MeetsSearch(t, search) ==
    IF search = None THEN TRUE
    ELSE \E k \in 0..(Len(t.text) - Len(Val(search))) :
            \A j \in 1..Len(Val(search)) :
                LowerChar(t.text[k + j]) = LowerChar(Val(search)[j])

MeetsPriority(t, priority) ==
    IF priority = None THEN TRUE
    ELSE IF Val(priority) = "" THEN TRUE
    ELSE PriorityValue(t.priority) = Val(priority)

----------------------------------------------------------------------------
(* C11: with no search text and no priority filter, the completion filter
   'active' yields exactly the todos with completed = false, 'completed'
   exactly those with completed = true, and any other value (absent, 'all',
   unrecognised) yields the full input unchanged; the input order is kept. *)
C11_CompletionFilter ==
    (ret.op = "list_endpoint" /\ Asked.search = None /\ Asked.priority = None)
    => ret.list =
         IF Asked.filter = Some("active")
         THEN Pick(Listed, {i \in 1..Len(Listed) : ~Listed[i].completed})
         ELSE IF Asked.filter = Some("completed")
         THEN Pick(Listed, {i \in 1..Len(Listed) : Listed[i].completed})
         ELSE Listed

\* an unrecognised value was given for a list holding todos of both kinds
C11_Witness ==
    /\ ret.op = "list_endpoint"
    /\ Asked.search = None
    /\ Asked.priority = None
    /\ Asked.filter = Some("done")
    /\ \E i, j \in 1..Len(Listed) :
          Listed[i].completed /\ ~Listed[j].completed /\ i < j
    /\ ret.list = Listed

----------------------------------------------------------------------------
(* C12: the completion filter, the search text and the priority filter
   combined yield exactly the todos that satisfy all three conditions,
   which is the intersection of the three single-filter results, in the
   input order, whatever the order the filters are applied in. *)
C12_FiltersIntersect ==
    ret.op = "list_endpoint" =>
      LET byCompletion == FilterCompletion(Listed, Asked.filter)
          bySearch     == FilterSearch(Listed, Asked.search)
          byPriority   == FilterPriority(Listed, Asked.priority)
          InAll(t) == /\ \E i \in 1..Len(byCompletion) : byCompletion[i] = t
                      /\ \E i \in 1..Len(bySearch) : bySearch[i] = t
                      /\ \E i \in 1..Len(byPriority) : byPriority[i] = t
      IN /\ ret.list =
              Pick(Listed,
                   {i \in 1..Len(Listed) :
                       /\ MeetsCompletion(Listed[i], Asked.filter)
                       /\ MeetsSearch(Listed[i], Asked.search)
                       /\ MeetsPriority(Listed[i], Asked.priority)})
         /\ ret.list = Pick(Listed, {i \in 1..Len(Listed) : InAll(Listed[i])})
         /\ ret.list = FilterCompletion(FilterPriority(bySearch,
                                                       Asked.priority),
                                        Asked.filter)
         /\ ret.list = FilterSearch(FilterCompletion(byPriority,
                                                     Asked.filter),
                                    Asked.search)
         /\ ret.list = FilterCompletion(FilterSearch(byPriority,
                                                     Asked.search),
                                        Asked.filter)

\* all three filters were given, each one dropped a todo and one todo
\* passed them all
C12_Witness ==
    /\ ret.op = "list_endpoint"
    /\ Asked.filter = Some("active")
    /\ Asked.search = Some(<<"m", "I">>)
    /\ Asked.priority = Some("high")
    /\ Len(ret.list) = 1
    /\ Len(FilterCompletion(Listed, Asked.filter)) = 2
    /\ Len(FilterSearch(Listed, Asked.search)) = 2
    /\ Len(FilterPriority(Listed, Asked.priority)) = 2
    /\ Len(Listed) = 3

----------------------------------------------------------------------------
(* Vocabulary of the store properties *)

\* what list() returns when it is called in the current state
ListNow == Snapshot(Seeded)

\* the number of records of s that are completed
CompletedIn(s) == Cardinality({i \in 1..Len(s) : s[i].completed})

----------------------------------------------------------------------------
(* C13: for every store state, clear_completed returns the number of
   records that were completed before the call, and the next list() returns
   exactly the records that were not completed before the call, in their
   order (none when every record was completed). *)
C13_ClearCompleted ==
    ret.op = "clear_completed" =>
        /\ ret.num = CompletedIn(ret.pre)
        /\ ListNow =
             Snapshot(Pick(ret.pre,
                           {i \in 1..Len(ret.pre) : ~ret.pre[i].completed}))

----------------------------------------------------------------------------
(* C14: clear_completed on a store that holds no records returns 0. *)
C14_ClearEmptyReturnsZero ==
    (ret.op = "clear_completed" /\ ret.pre = <<>>) => ret.num = 0

----------------------------------------------------------------------------
(* C15: on either backend list() and count() on an empty collection seed
   it first, so list() never returns an empty list and count() never
   returns 0. *)
C15_NeverEmpty ==
    /\ ret.op = "list" => ret.list # <<>>
    /\ ret.op = "count" => ret.num # 0

----------------------------------------------------------------------------
(* C17: every Todo returned by list, get, create and update is an
   independent copy: when the caller changes a Todo it was handed, what
   get and list return afterwards is what they returned before the change. *)
C17_ReturnedCopies ==
    ret.op = "caller_change" =>
        /\ ListNow = Snapshot(ret.pre)
        /\ GetNow = Lookup(ret.pre, ret.id)

----------------------------------------------------------------------------
(* C18: DELETE /api/todos/completed is dispatched to the clear-completed
   handler, not to the delete-by-id handler registered before it, and
   answers 200 with deleted_count equal to the number of completed todos. *)
C18_ClearCompletedRoute ==
    (ret.op = "http"
       /\ ret.arg.method = "DELETE"
       /\ ret.arg.path = ApiTodos(Word("completed")))
    => /\ ret.arg.handler = "clear_completed_todos"
       /\ ret.out = "ok"
       /\ ret.num = CompletedIn(ret.pre)

----------------------------------------------------------------------------
(* C19: GET /api/todos/reminders answers with exactly the stored todos that
   are not completed and have a due_date and a reminder_time whose
   combination lies within the hour that starts now; a todo just created
   with such values is among them. *)
InWindow(t) ==
    IF t.due_date = None \/ t.reminder_time = None \/ t.completed THEN FALSE
    ELSE /\ now <= Combine(Val(t.due_date), Val(t.reminder_time), now)
         /\ Combine(Val(t.due_date), Val(t.reminder_time), now)
               <= now + ReminderWindow

C19_Reminders ==
    /\ (ret.op = "http"
          /\ ret.arg.method = "GET"
          /\ ret.arg.path = ApiTodos(Word("reminders")))
       => /\ ret.arg.handler = "get_upcoming_reminders"
          /\ ret.out = "ok"
          /\ ret.list = Pick(ListNow,
                             {i \in 1..Len(ListNow) : InWindow(ListNow[i])})
    /\ (Succeeded({"create"}) /\ InWindow(ret.arg))
       => \E i \in 1..Len(UpcomingReminders(ListNow, now)) :
              UpcomingReminders(ListNow, now)[i].id = ret.id

----------------------------------------------------------------------------
(* C20: the store signals a missing id, a validation failure and a storage
   failure as three distinguishable error kinds: no update call reports a
   validation failure or a storage failure under the error kind it uses
   for a missing id. *)
C20_ErrorKinds ==
    (ret.op = "update" /\ ret.out \in {"validation_error", "storage_error"})
    => ~IsSubclass(ExceptionOf(ret.out), ExceptionOf("not_found"))

----------------------------------------------------------------------------
(* C16: the in-memory and the relational backend, started empty and driven
   by the same sequence of list, get, create, update, delete,
   clear_completed and count calls, return equal results at every step, up
   to the generated ids (and the readings of the clock). *)
SameTodo(x, y) == \A f \in FieldNames : x[f] = y[f]

SameResult(r, q) ==
    /\ r.op = q.op
    /\ r.out = q.out
    /\ r.num = q.num
    /\ (r.todo = None) = (q.todo = None)
    /\ r.todo # None => SameTodo(Val(r.todo), Val(q.todo))
    /\ Len(r.list) = Len(q.list)
    /\ \A i \in 1..Len(r.list) : SameTodo(r.list[i], q.list[i])

C16_BackendsAgree ==
    (twin.phase = "follow" /\ ret.op # "pending")
    => SameResult(twin.process.ret, ret)

----------------------------------------------------------------------------
(* C21: a create or update payload that sets reminder_time without a
   due_date is rejected with a validation error before any write, and in
   every reachable state no stored record has reminder_time set while its
   due_date is absent. *)
OrphanReminder(x) == x.reminder_time # None /\ x.due_date = None

C21_OrphanReminderRejected ==
    /\ (ret.op \in {"create", "update"} /\ OrphanReminder(ret.arg))
       => (ret.out = "validation_error" /\ store = ret.pre)
    /\ \A i \in 1..Len(store) : ~OrphanReminder(store[i])

\* an update payload with a reminder and no due date was refused for a
\* stored record
C21_Witness ==
    /\ ret.op = "update"
    /\ OrphanReminder(ret.arg)
    /\ ret.out = "validation_error"
    /\ ~Absent(store, ret.id)

----------------------------------------------------------------------------
(* Vocabulary of the properties of requests *)

Answered(r) == twin.req[r].at = "done"

AllAnswered == \A r \in Requests : Answered(r)

----------------------------------------------------------------------------
(* C22: the PUT, DELETE and toggle endpoints answer a request for an id
   that is not in the store with 404 and never with 500, also when another
   request deletes the record between the endpoint's existence check and
   its update or delete call. *)
C22_NotFoundNever500 ==
    twin.phase = "requests" =>
        \A r \in Requests :
            (Answered(r) /\ twin.req[r].kind \in {"put", "delete", "toggle"})
            => /\ twin.req[r].status # 500
               /\ twin.req[r].existing = None => twin.req[r].status = 404

----------------------------------------------------------------------------
(* C24: when create requests run concurrently on the in-memory store that
   was empty before them, every create that was answered with success is
   in the list read after all of them have finished. *)
C24_NoCreateLost ==
    (/\ twin.phase = "requests"
     /\ ~UsePersistentStorage
     /\ twin.start = <<>>
     /\ AllAnswered
     /\ \A r \in Requests : twin.req[r].kind = "create")
    => \A r \in Requests :
          twin.req[r].status = 200 => ~Absent(ListNow, twin.req[r].made)

----------------------------------------------------------------------------
(* C25: when two toggle requests for the same id run concurrently and both
   are answered with success, the stored completed flag afterwards is the
   one the record had before both. *)
C25_TwoTogglesRestore ==
    (/\ twin.phase = "requests"
     /\ AllAnswered
     /\ \A r \in Requests :
           /\ twin.req[r].kind = "toggle"
           /\ twin.req[r].id = twin.req[1].id
           /\ twin.req[r].status = 200
     /\ ~Absent(twin.start, twin.req[1].id)
     /\ ~Absent(store, twin.req[1].id))
    => RecordOf(store, twin.req[1].id).completed
          = RecordOf(twin.start, twin.req[1].id).completed

----------------------------------------------------------------------------
(* C23: for every store state, the empty store and the store of a single
   record included, the list after a successful create is the records the
   store held before followed by the new one, exactly one longer, and the
   list after a successful delete(id) is exactly one shorter than the store
   was and get(id) is absent. *)
C23_OneLongerOneShorter ==
    /\ Succeeded({"create"})
          => /\ Len(ListNow) = Len(ret.pre) + 1
             /\ \A i \in 1..Len(ret.pre) : ListNow[i] = AsModel(ret.pre[i])
             /\ ListNow[Len(ListNow)].id = Returned.id
    /\ (ret.op = "delete" /\ ret.out = "true")
          => /\ Len(ListNow) = Len(ret.pre) - 1
             /\ GetNow = None

----------------------------------------------------------------------------
\* the fields a toggle has no business with
Untouched == {"text", "priority", "id", "created_at"}

(* C26: a successful toggle negates the completed flag of the record, in
   the store and in the returned Todo; a second successful toggle of the
   same id that follows it puts the flag back to what it was before the
   first; and neither changes the record's text, priority, id or
   created_at. *)
C26_ToggleTwiceRestores ==
    [][ (ret'.op = "toggle" /\ ret'.out = "ok") =>
           LET was == RecordOf(store, ret'.id)
               is  == RecordOf(store', ret'.id)
           IN  /\ is.completed = ~was.completed
               /\ Val(ret'.todo).completed = ~was.completed
               /\ \A f \in Untouched : is[f] = was[f]
               /\ \A f \in Untouched : Val(ret'.todo)[f] = AsModel(was)[f]
               /\ (ret.op = "toggle" /\ ret.out = "ok" /\ ret.id = ret'.id) =>
                     /\ is.completed = RecordOf(ret.pre, ret.id).completed
                     /\ \A f \in Untouched :
                           is[f] = RecordOf(ret.pre, ret.id)[f] ]_vars

\* the second write put the flag of the first sample record back
C26_Witness ==
    /\ Succeeded({"toggle"})
    /\ writes = 2
    /\ ret.id = 1
    /\ Before.completed
    /\ Before.updated_at > SeedLatest
    /\ ~RecordOf(store, ret.id).completed
    /\ RecordOf(store, ret.id).text = SampleTodos[1].text

----------------------------------------------------------------------------
(* C29: on the in-memory backend a successful update (or toggle) and a
   successful delete change only the record with the addressed id: every
   other record keeps all its field values, the remaining records keep
   their order of insertion, and an updated record stays at its position. *)
C29_OnlyAddressedChanges ==
    ~UsePersistentStorage =>
        /\ (Succeeded({"update", "toggle"}) /\ ~Absent(ret.pre, ret.id)) =>
              /\ Len(store) = Len(ret.pre)
              /\ \A i \in 1..Len(ret.pre) :
                    IF ret.pre[i].id = ret.id
                    THEN store[i].id = ret.id
                    ELSE store[i] = ret.pre[i]
        /\ (ret.op = "delete" /\ ret.out = "true"
              /\ ~Absent(ret.pre, ret.id)) =>
              LET k == IndexOf(ret.pre, ret.id) IN
              /\ Len(store) = Len(ret.pre) - 1
              /\ \A i \in 1..Len(store) :
                    store[i] = IF i < k THEN ret.pre[i] ELSE ret.pre[i + 1]

\* a record that was not the last one has been deleted
C29_Witness ==
    /\ ~UsePersistentStorage
    /\ ret.op = "delete"
    /\ ret.out = "true"
    /\ Len(store) >= 2
    /\ IndexOf(ret.pre, ret.id) < Len(ret.pre)
    /\ store[Len(store)] = ret.pre[Len(ret.pre)]

----------------------------------------------------------------------------
\* the fields a payload sets explicitly to null
ExplicitNulls(p) == {f \in p.fields : p[f] = None}

(* C30: an update of a stored record whose payload sets priority or
   completed explicitly to null succeeds on either backend and leaves that
   field of the record at its stored value. *)
C30_NullKeepsStored ==
    (/\ ret.op = "update"
     /\ ~Absent(ret.pre, ret.id)
     /\ ExplicitNulls(ret.arg) # {}
     /\ ExplicitNulls(ret.arg) \subseteq {"priority", "completed"})
    => /\ ret.out = "ok"
       /\ \A f \in ExplicitNulls(ret.arg) :
             RecordOf(store, ret.id)[f] = RecordOf(ret.pre, ret.id)[f]

----------------------------------------------------------------------------
\* the positions of list s whose todo is not completed and has a due date
Due(s) == {i \in 1..Len(s) : ~s[i].completed /\ s[i].due_date # None}

DueOn(s, i) == Val(s[i].due_date)

(* C27: for every snapshot, whatever day today is, overdue_count is the
   number of not-completed todos whose due_date is before today,
   due_today_count of those due today, upcoming_count of those due after
   today and at most 7 days ahead; no todo is counted in two of the three,
   and the three counts together never exceed active. *)
C27_DueCounts ==
    ret.op = "stats" =>
        LET st == Val(ret.stats) IN
        /\ st.overdue_count =
              Cardinality({i \in Due(ret.list) : DueOn(ret.list, i) < Today})
        /\ st.due_today_count =
              Cardinality({i \in Due(ret.list) : DueOn(ret.list, i) = Today})
        /\ st.upcoming_count =
              Cardinality({i \in Due(ret.list) :
                              /\ DueOn(ret.list, i) > Today
                              /\ DueOn(ret.list, i) <= Today + 7})
        /\ \A i \in 1..Len(ret.list) :
              /\ ~(IsOverdue(ret.list[i]) /\ IsDueToday(ret.list[i]))
              /\ ~(IsOverdue(ret.list[i]) /\ IsUpcoming(ret.list[i]))
              /\ ~(IsDueToday(ret.list[i]) /\ IsUpcoming(ret.list[i]))
        /\ st.overdue_count + st.due_today_count + st.upcoming_count
              <= st.active

\* one todo in each group, the upcoming one due on the seventh day
C27_Witness ==
    /\ ret.op = "stats"
    /\ Val(ret.stats).overdue_count = 1
    /\ Val(ret.stats).due_today_count = 1
    /\ Val(ret.stats).upcoming_count = 1
    /\ \E i \in 1..Len(ret.list) :
          ~ret.list[i].completed /\ ret.list[i].due_date = Some(Today + 7)

----------------------------------------------------------------------------
(* C28: on the relational backend every store call creates one session;
   when the call has ended, by return, by the not-found error or by an
   error of the database, the session is closed and holds no uncommitted
   change; and a call that returns after staging a write has committed it:
   the table is the staged one. *)
C28_SessionClosed ==
    twin.phase = "session" =>
        /\ twin.opened <= 1
        /\ twin.pc # "idle" => twin.opened = 1
        /\ twin.pc = "ended" => (~twin.active /\ ~twin.pending)
        /\ (twin.pc \in {"leaving", "ended"} /\ twin.raised = "none"
              /\ twin.staged # None)
              => (twin.committed /\ ~twin.pending /\ store = Val(twin.staged))

\* an update has been refused by the database and the call has ended
C28_Witness ==
    /\ twin.phase = "session"
    /\ twin.pc = "ended"
    /\ twin.raised = "storage_error"
    /\ ~twin.committed
    /\ twin.staged # None
    /\ ~twin.active

====
